---- MODULE Spec2Model ----
(***************************************************************************)
(* Model of the shipment API (src/app.py): a Flask application with four   *)
(* routes (health, listar_envios, obtener_envio, crear_envio) over one     *)
(* table, "envios", reached through an ORM session.                        *)
(*                                                                         *)
(* Python values are tagged records, so that None, strings, numbers, lists *)
(* and dicts can be told apart the way the interpreter tells them apart.   *)
(***************************************************************************)
EXTENDS Integers, Sequences, FiniteSets, TLC

VARIABLES
    phase,        \* "starting" | "serving" | "crashed": position of __main__
    tableExists,  \* the table "envios" exists in the database
    table,        \* the rows of "envios"
    seq,          \* last value handed out by the id sequence of "envios"
    now,          \* the database server's clock
    pending,      \* objects added to db.session and not yet committed
    connFaults,   \* the connection to the database can be lost after startup
    request,      \* the request being answered (NoRequest before the first)
    response,     \* the response given to it
    outcome,      \* what the persistence layer did for it
    returned      \* history: the records returned with status 201

vars == <<phase, tableExists, table, seq, now, pending, connFaults,
          request, response, outcome, returned>>

(***************************************************************************)
(* Bounds of the model.                                                    *)
(***************************************************************************)
MaxSeq == 2
MaxClock == 1

(***************************************************************************)
(* Column lengths of Envio.                                                *)
(***************************************************************************)
MaxDestinatario == 120
MaxDireccion == 200
MaxEstado == 30

(***************************************************************************)
(* Python values.                                                          *)
(***************************************************************************)
None == [type |-> "NoneType"]
Str(s) == [type |-> "str", value |-> s]
PyInt(n) == [type |-> "int", value |-> n]
List(q) == [type |-> "list", value |-> q]
Dict(f) == [type |-> "dict", value |-> f]
EmptyDict == Dict([k \in {} |-> None])

\* c * n, for a string c: built by halving, so the recursion stays shallow
RECURSIVE Repeat(_, _)
Repeat(c, n) ==
    IF n = 0 THEN ""
    ELSE IF n % 2 = 0
    THEN LET half == Repeat(c, n \div 2) IN half \o half
    ELSE c \o Repeat(c, n - 1)

\* bool(v): the truth value Python gives v
truthy(v) ==
    CASE v.type = "NoneType" -> FALSE
      [] v.type = "str" -> v.value # ""
      [] v.type = "int" -> v.value # 0
      [] v.type = "list" -> v.value # <<>>
      [] v.type = "dict" -> DOMAIN v.value # {}

\* s1 in s2, for two strings: s1 occurs in s2
IsSubstring(s1, s2) ==
    \E i \in 1..(Len(s2) - Len(s1) + 1) : SubSeq(s2, i, i + Len(s1) - 1) = s1

\* the types on which "f in data" does not raise TypeError
SupportsIn == {"str", "list", "dict"}

\* f in data, for a string f
contains(data, f) ==
    CASE data.type = "dict" -> f \in DOMAIN data.value
      [] data.type = "list" -> \E i \in DOMAIN data.value : data.value[i] = Str(f)
      [] data.type = "str" -> IsSubstring(f, data.value)

\* Mutant of dict_get: the value the body supplies is ignored
dict_get_default(d, key, default) == default

\* d.get(key, default)
dict_get(d, key, default) == IF key \in DOMAIN d THEN d[key] ELSE default

(***************************************************************************)
(* Envio: the mapped class and what the database does with an INSERT of    *)
(* one of its objects.                                                     *)
(***************************************************************************)
Envio(destinatario, direccion, estado) ==
    [destinatario |-> destinatario, direccion |-> direccion, estado |-> estado]

\* Column estado: an attribute that is None is left out of the INSERT, so the
\* column default is stored
estado_column(v) == IF v = None THEN Str("Registrado") ELSE v

\* The error the INSERT of obj raises, "none" when the row is accepted:
\* String(n) columns reject longer values, nullable=False columns reject NULL
insert_error(obj) ==
    IF \/ obj.destinatario # None /\ Len(obj.destinatario.value) > MaxDestinatario
       \/ obj.direccion # None /\ Len(obj.direccion.value) > MaxDireccion
       \/ Len(estado_column(obj.estado).value) > MaxEstado
    THEN "DataError"
    ELSE IF obj.destinatario = None \/ obj.direccion = None
    THEN "IntegrityError"
    ELSE "none"

\* The row stored for obj: id from the sequence, fecha_registro from the
\* server's clock
new_row(obj, id, ts) ==
    [id |-> id,
     destinatario |-> obj.destinatario.value,
     direccion |-> obj.direccion.value,
     estado |-> estado_column(obj.estado).value,
     fecha_registro |-> ts]

\* str(datetime)
str_datetime(ts) == "2024-01-01 00:00:0" \o ToString(ts)

\* Mutant of to_dict: fecha_registro is read from the clock, not from the row
to_dict_now(self) ==
    [id |-> self.id,
     destinatario |-> self.destinatario,
     direccion |-> self.direccion,
     estado |-> self.estado,
     fecha_registro |-> str_datetime(now)]

to_dict(self) ==
    [id |-> self.id,
     destinatario |-> self.destinatario,
     direccion |-> self.direccion,
     estado |-> self.estado,
     fecha_registro |-> str_datetime(self.fecha_registro)]

\* Mutant of query_get: the primary key is not used to filter
query_get_any(rows, id) == rows

\* Envio.query.get(id): the rows with that primary key (none or one)
query_get(rows, id) == {e \in rows : e.id = id}

\* Mutant of query_all: at most one row is returned
query_all_first(rows) ==
    {q \in [1..(IF rows = {} THEN 0 ELSE 1) -> rows] : TRUE}

\* Envio.query.all(): the rows, in an order the database chooses
query_all(rows) ==
    {q \in [1..Cardinality(rows) -> rows] :
        \A i, j \in DOMAIN q : i # j => q[i] # q[j]}

\* Mutant of rollback: the session keeps the objects it could not commit
rollback_keep(pend) == pend

\* db.session.rollback(): the session forgets the objects it had not committed
rollback(pend) == <<>>

(***************************************************************************)
(* Standard responses.                                                     *)
(***************************************************************************)
\* ok(data, code=200)
DefaultOkCode == 200

jsonify(obj) == [mimetype |-> "application/json", body |-> obj]

ok(data, code) ==
    [status |-> code,
     mimetype |-> jsonify([success |-> TRUE, data |-> data]).mimetype,
     body |-> jsonify([success |-> TRUE, data |-> data]).body]

error(message, code) ==
    [status |-> code,
     mimetype |-> jsonify([success |-> FALSE, error |-> message]).mimetype,
     body |-> jsonify([success |-> FALSE, error |-> message]).body]

\* What the framework answers by itself: an HTTPException raised while the
\* request is read, or an exception no handler catches (status 500)
framework_error(code) ==
    [status |-> code, mimetype |-> "text/html", body |-> "<!doctype html>"]

NoRequest == [route |-> "none"]
NoResponse == [status |-> 0, mimetype |-> "none", body |-> "none"]

(***************************************************************************)
(* The requests the model sends.                                           *)
(***************************************************************************)
LongDestinatario == Repeat("d", MaxDestinatario + 1)
LongDireccion == Repeat("c", MaxDireccion + 1)
LongEstado == Repeat("e", MaxEstado + 1)

DestinatarioValues == {None, Str(""), Str("Ana"), Str(LongDestinatario)}
DireccionValues == {None, Str("Calle 1"), Str(LongDireccion)}
EstadoValues == {None, Str("Enviado"), Str(LongEstado)}

FieldValues(k) ==
    CASE k = "destinatario" -> DestinatarioValues
      [] k = "direccion" -> DireccionValues
      [] k = "estado" -> EstadoValues

\* JSON objects with any subset of the three keys
ObjectBodies ==
    UNION {{Dict(f) : f \in {g \in [K -> UNION {FieldValues(k) : k \in K}] :
                                \A k \in K : g[k] \in FieldValues(k)}} :
           K \in SUBSET {"destinatario", "direccion", "estado"}}

\* JSON documents that are not objects
OtherJson ==
    {None, PyInt(0), PyInt(5), Str(""), Str("x"), Str("destinatario direccion"),
     List(<<>>), List(<<Str("destinatario")>>),
     List(<<Str("destinatario"), Str("direccion")>>)}

\* "absent": no JSON body was sent; "malformed": the body does not parse
Bodies ==
    {[kind |-> "absent"], [kind |-> "malformed"]}
        \cup {[kind |-> "json", value |-> v] : v \in ObjectBodies \cup OtherJson}

Ids == 0..(MaxSeq + 1)

\* The points of a handler at which the connection can be lost
Cuts(points) == IF connFaults THEN {"none"} \cup points ELSE {"none"}

(***************************************************************************)
(* request.json: the parsed body. A body that does not parse raises        *)
(* BadRequest; without a JSON body the result depends on the version of    *)
(* the framework (None, or UnsupportedMediaType): the set of results.      *)
(***************************************************************************)
request_json(body) ==
    CASE body.kind = "json" -> {[raised |-> 0, value |-> body.value]}
      [] body.kind = "malformed" -> {[raised |-> 400, value |-> None]}
      [] body.kind = "absent" ->
            {[raised |-> 0, value |-> None], [raised |-> 415, value |-> None]}

required == <<"destinatario", "direccion">>

\* Mutant of missing_fields: only the first missing field is reported
missing_first(data) ==
    LET all == SelectSeq(required, LAMBDA f : ~contains(data, f))
    IN  IF all = <<>> THEN <<>> ELSE <<all[1]>>

\* [f for f in required if f not in data]
missing_fields(data) == SelectSeq(required, LAMBDA f : ~contains(data, f))

\* ', '.join(names)
RECURSIVE join(_)
join(names) ==
    IF names = <<>> THEN ""
    ELSE IF Len(names) = 1 THEN names[1]
    ELSE names[1] \o ", " \o join(Tail(names))

(***************************************************************************)
(* db.session.add(envio); db.session.commit(); envio.to_dict()             *)
(* and the except branch: the set of results, where cut = "insert" when   *)
(* the connection is lost before the INSERT. An INSERT that a constraint   *)
(* rejects may or may not have consumed a value of the id sequence.        *)
(***************************************************************************)
save(envio, cut) ==
    LET pend == Append(pending, envio)
        n == Len(pend)
        bad == {i \in 1..n : insert_error(pend[i]) # "none"}
        first == CHOOSE i \in bad : \A j \in bad : i <= j
        rows == {new_row(pend[i], seq + i, now) : i \in 1..n}
        mine == new_row(envio, seq + n, now)
        failed(why, used) ==
            [response |-> error("Error al guardar en la base de datos", 500),
             outcome |-> why,
             table |-> table,
             seq |-> seq + used,
             pending |-> rollback(pend),
             returned |-> returned]
    IN  IF cut = "insert" \/ ~tableExists
        THEN {failed("OperationalError", 0)}
        ELSE IF bad # {}
        THEN {failed(insert_error(pend[first]), used) : used \in {0, 1}}
        ELSE {[response |-> ok(to_dict(mine), 201),
              outcome |-> "committed",
              table |-> table \cup rows,
              seq |-> seq + n,
              pending |-> <<>>,
              returned |-> returned \cup {to_dict(mine)}]}

\* What crear_envio does before it reaches the database
rejected(resp) ==
    [response |-> resp, outcome |-> "rejected", table |-> table, seq |-> seq,
     pending |-> pending, returned |-> returned]

\* crear_envio once request.json has given rj
crear_parsed(rj, cut) ==
    LET data == IF truthy(rj.value) THEN rj.value ELSE EmptyDict
        missing == missing_fields(data)
    IN  IF rj.raised # 0
        THEN {rejected(framework_error(rj.raised))}
        ELSE IF data.type \notin SupportsIn
        THEN {rejected(framework_error(500))}
        ELSE IF missing # <<>>
        THEN {rejected(error("Faltan campos obligatorios: " \o join(missing), 400))}
        ELSE IF data.type # "dict"
        THEN {rejected(framework_error(500))}
        ELSE save(Envio(data.value["destinatario"],
                        data.value["direccion"],
                        dict_get(data.value, "estado", Str("Registrado"))),
                  cut)

crear_results(body) ==
    UNION {crear_parsed(rj, cut) : rj \in request_json(body), cut \in Cuts({"insert"})}

(***************************************************************************)
(* The handlers.                                                           *)
(***************************************************************************)
health ==
    /\ phase = "serving"
    /\ request' = [route |-> "health"]
    /\ response' = ok([status |-> "ok"], DefaultOkCode)
    /\ outcome' = "none"
    /\ UNCHANGED <<phase, tableExists, table, seq, now, pending, connFaults, returned>>

listar_envios(cut) ==
    /\ phase = "serving"
    /\ request' = [route |-> "listar_envios"]
    /\ IF cut = "query" \/ ~tableExists
       THEN /\ response' = framework_error(500)
            /\ outcome' = "OperationalError"
       ELSE /\ \E envios \in query_all(table) :
                 response' = ok([i \in DOMAIN envios |-> to_dict(envios[i])],
                                DefaultOkCode)
            /\ outcome' = "listed"
    /\ UNCHANGED <<phase, tableExists, table, seq, now, pending, connFaults, returned>>

obtener_envio(id, cut) ==
    /\ phase = "serving"
    /\ request' = [route |-> "obtener_envio", id |-> id]
    /\ IF cut = "query" \/ ~tableExists
       THEN /\ response' = framework_error(500)
            /\ outcome' = "OperationalError"
       ELSE LET envio == query_get(table, id)
            IN  IF envio = {}
                THEN /\ response' = error("Envío no encontrado", 404)
                     /\ outcome' = "not_found"
                ELSE /\ response' = ok(to_dict(CHOOSE e \in envio : TRUE),
                                       DefaultOkCode)
                     /\ outcome' = "found"
    /\ UNCHANGED <<phase, tableExists, table, seq, now, pending, connFaults, returned>>

crear_envio(body) ==
    /\ phase = "serving"
    /\ seq + Len(pending) < MaxSeq
    /\ \E r \in crear_results(body) :
           /\ request' = [route |-> "crear_envio", body |-> body]
           /\ response' = r.response
           /\ outcome' = r.outcome
           /\ table' = r.table
           /\ seq' = r.seq
           /\ pending' = r.pending
           /\ returned' = r.returned
    /\ UNCHANGED <<phase, tableExists, now, connFaults>>

(***************************************************************************)
(* __main__: db.create_all(), then app.run(). create_all raises when the   *)
(* database cannot be reached, and the process ends before it listens.     *)
(***************************************************************************)
\* Mutant of create_all: the table is not created
create_all_skip(exists) == exists

\* db.create_all(): the table exists afterwards, whether it existed or not
create_all(exists) == TRUE

main(reachable) ==
    /\ phase = "starting"
    /\ IF reachable
       THEN /\ tableExists' = create_all(tableExists)
            /\ phase' = "serving"
       ELSE /\ tableExists' = tableExists
            /\ phase' = "crashed"
    /\ UNCHANGED <<table, seq, now, pending, connFaults, request, response,
                   outcome, returned>>

\* The process ends and is started again; the database stays
restart ==
    /\ phase \in {"serving", "crashed"}
    /\ phase' = "starting"
    /\ pending' = <<>>
    /\ request' = NoRequest
    /\ response' = NoResponse
    /\ outcome' = "none"
    /\ UNCHANGED <<tableExists, table, seq, now, connFaults, returned>>

\* Time passes on the database server
tick ==
    /\ now < MaxClock
    /\ now' = now + 1
    /\ UNCHANGED <<phase, tableExists, table, seq, pending, connFaults, request,
                   response, outcome, returned>>

InitCommon ==
    /\ phase = "starting"
    /\ tableExists = FALSE
    /\ table = {}
    /\ seq = 0
    /\ now = 0
    /\ pending = <<>>
    /\ request = NoRequest
    /\ response = NoResponse
    /\ outcome = "none"
    /\ returned = {}

Init == InitCommon /\ connFaults = FALSE

InitFault == InitCommon /\ connFaults = TRUE

Next ==
    \/ \E reachable \in BOOLEAN : main(reachable)
    \/ restart
    \/ tick
    \/ health
    \/ \E cut \in Cuts({"query"}) : listar_envios(cut)
    \/ \E id \in Ids, cut \in Cuts({"query"}) : obtener_envio(id, cut)
    \/ \E body \in Bodies : crear_envio(body)

\* The database stays reachable once the process serves
Spec == Init /\ [][Next]_vars

\* The connection can be lost during any request
SpecFault == InitFault /\ [][Next]_vars

(***************************************************************************)
(* Vocabulary of the properties.                                           *)
(***************************************************************************)
IsCrear(req) == req.route = "crear_envio"

\* the request is a create whose body is a JSON object
IsCrearObject(req) ==
    IsCrear(req) /\ req.body.kind = "json" /\ req.body.value.type = "dict"

Fields(req) == req.body.value.value

HasNonEmpty(req, k) ==
    /\ k \in DOMAIN Fields(req)
    /\ Fields(req)[k].type = "str"
    /\ Fields(req)[k].value # ""

HasNull(req, k) == k \in DOMAIN Fields(req) /\ Fields(req)[k] = None

IsEnvelope(resp) ==
    /\ resp.mimetype = "application/json"
    /\ \/ DOMAIN resp.body = {"success", "data"} /\ resp.body.success = TRUE
       \/ DOMAIN resp.body = {"success", "error"} /\ resp.body.success = FALSE

ReturnedIds == {d.id : d \in returned}

InsertErrors == {"OperationalError", "IntegrityError", "DataError"}

\* a create with recipient and address non-empty, answered 201 with the
\* stored record under an id no earlier create returned
CreatedFresh ==
    /\ response'.status = 201
    /\ IsEnvelope(response') /\ response'.body.success
    /\ response'.body.data \in {to_dict(e) : e \in table' \ table}
    /\ response'.body.data.id \in Nat
    /\ response'.body.data.id \notin ReturnedIds

\* C1 as stated: every create with a non-empty destinatario and a non-empty
\* direccion whose insert succeeds is answered 201 with the stored record,
\* under an id no earlier successful create returned, and estado is the
\* supplied estado, or "Registrado" when the body has no estado key.
C1_AsStated ==
    [][(table' # table /\ IsCrearObject(request')
            /\ HasNonEmpty(request', "destinatario")
            /\ HasNonEmpty(request', "direccion"))
        => /\ CreatedFresh
           /\ Str(response'.body.data.estado) =
                 (IF "estado" \in DOMAIN Fields(request')
                  THEN Fields(request')["estado"] ELSE Str("Registrado"))]_vars

\* C1 amended: as C1, with estado the supplied estado when the body supplies
\* a string, and "Registrado" when the body has no estado key or a null one.
C1_Create ==
    [][(table' # table /\ IsCrearObject(request')
            /\ HasNonEmpty(request', "destinatario")
            /\ HasNonEmpty(request', "direccion"))
        => /\ CreatedFresh
           /\ Str(response'.body.data.estado) =
                 (IF "estado" \in DOMAIN Fields(request')
                     /\ Fields(request')["estado"] # None
                  THEN Fields(request')["estado"] ELSE Str("Registrado"))]_vars

\* a second successful create, whose body carries a null estado
C1_Witness ==
    /\ IsCrearObject(request) /\ outcome = "committed"
    /\ HasNull(request, "estado")
    /\ response.status = 201
    /\ Cardinality(returned) = 2

\* the message the claim expects for a body without some required key
ExpectedMissing(req) ==
    IF "destinatario" \notin DOMAIN Fields(req)
    THEN IF "direccion" \notin DOMAIN Fields(req)
         THEN "Faltan campos obligatorios: destinatario, direccion"
         ELSE "Faltan campos obligatorios: destinatario"
    ELSE "Faltan campos obligatorios: direccion"

LacksRequired(req) ==
    \E k \in {"destinatario", "direccion"} : k \notin DOMAIN Fields(req)

\* C2: a create whose JSON object lacks destinatario, direccion or both is
\* answered 400 with the error envelope, the message lists exactly the
\* missing names (destinatario first, comma-joined), and nothing is written.
C2_MissingFields ==
    [][(IsCrearObject(request') /\ LacksRequired(request'))
        => /\ response'.status = 400
           /\ response'.mimetype = "application/json"
           /\ response'.body = [success |-> FALSE, error |-> ExpectedMissing(request')]
           /\ table' = table
           /\ seq' = seq]_vars

\* a create that lacks only direccion, refused while the table holds a row
C2_Witness ==
    /\ IsCrearObject(request)
    /\ DOMAIN Fields(request) = {"destinatario", "estado"}
    /\ response.status = 400
    /\ table # {}

\* C3 as stated: a create in which destinatario or direccion is present with
\* a null value is refused by validation: status 400, error envelope, before
\* any write is attempted.
C3_NullIsValidationError ==
    (IsCrearObject(request)
        /\ (HasNull(request, "destinatario") \/ HasNull(request, "direccion")))
    => /\ response.status = 400
       /\ IsEnvelope(response)
       /\ outcome = "rejected"

\* C4 as stated: no persisted record has an empty destinatario or an empty
\* direccion.
C4_NeverEmpty ==
    \A e \in table : e.destinatario # "" /\ e.direccion # ""

\* C5: a get-by-id for an id no successful create returned is answered 404
\* with the error envelope and the fixed message; a get-by-id for an id a
\* create returned is answered 200 with that record.
C5_GetById ==
    request.route = "obtener_envio"
    => IF request.id \in ReturnedIds
       THEN /\ response.status = 200
            /\ response.mimetype = "application/json"
            /\ \E d \in returned :
                  d.id = request.id /\ response.body = [success |-> TRUE, data |-> d]
       ELSE /\ response.status = 404
            /\ response.mimetype = "application/json"
            /\ response.body = [success |-> FALSE, error |-> "Envío no encontrado"]

\* a get-by-id for an id never returned, while other records exist
C5_Witness ==
    /\ request.route = "obtener_envio"
    /\ request.id \notin ReturnedIds
    /\ response.status = 404
    /\ returned # {}

\* C6: the object a create returned and the object any later get-by-id for
\* its id returns agree in every field, and a get-by-id repeated for the same
\* id returns the same response.
C6_RoundTrip ==
    /\ [](request.route = "obtener_envio"
            => \A d \in returned :
                  d.id = request.id
                  => /\ response.status = 200
                     /\ response.body.data.id = d.id
                     /\ response.body.data.destinatario = d.destinatario
                     /\ response.body.data.direccion = d.direccion
                     /\ response.body.data.estado = d.estado
                     /\ response.body.data.fecha_registro = d.fecha_registro)
    /\ [][(request.route = "obtener_envio" /\ request' = request)
            => response' = response]_vars

\* a get-by-id that returns a record created before the clock moved and
\* before another record was created
C6_Witness ==
    /\ request.route = "obtener_envio"
    /\ response.status = 200
    /\ Cardinality(returned) = 2
    /\ \E e \in table : e.id = request.id /\ e.fecha_registro < now

\* C7: a list request is answered 200 with a collection that holds each
\* record returned by a successful create, exactly as returned, and nothing
\* else: its size is the number of successful creates.
C7_ListAll ==
    request.route = "listar_envios"
    => /\ response.status = 200
       /\ IsEnvelope(response) /\ response.body.success
       /\ {response.body.data[i] : i \in DOMAIN response.body.data} = returned
       /\ Len(response.body.data) = Cardinality(returned)

\* a list of two records, the later one first
C7_Witness ==
    /\ request.route = "listar_envios"
    /\ Len(response.body.data) = 2
    /\ response.body.data[1].id > response.body.data[2].id

\* the object crear_envio builds from a body that passed validation
EnvioOf(req) ==
    Envio(Fields(req)["destinatario"], Fields(req)["direccion"],
          dict_get(Fields(req), "estado", Str("Registrado")))

C9_AlwaysEnvelope ==
    response # NoResponse => IsEnvelope(response)

\* C10: the process serves only after create_all has succeeded; when
\* create_all fails no request is answered; and create_all on an existing
\* table leaves the table and its rows as they were.
C10_Startup ==
    /\ [](phase = "serving" => tableExists)
    /\ [](response # NoResponse => phase = "serving" /\ tableExists)
    /\ [](phase = "crashed" => request = NoRequest /\ response = NoResponse)
    /\ [][(phase = "starting" /\ phase' # phase)
            => /\ table' = table
               /\ seq' = seq
               /\ tableExists => tableExists']_vars

\* the process started again over a table that holds rows
C10_Witness ==
    /\ phase = "serving"
    /\ request = NoRequest
    /\ table # {}

====
